---- MODULE Spec2Model ----
(***************************************************************************)
(* Model of the two tool servers of the editing assistant:                 *)
(*                                                                         *)
(*   editing_watcher.py      EditingBehaviorTracker (the Pattern Store),   *)
(*                           ProjectFileWatcher (one observer thread per   *)
(*                           started session) and handle_call_tool;        *)
(*   davinci_resolve_mcp.py  ResolveEditingTracker (timeline snapshot,     *)
(*                           cut statistics, tool-usage counters) and      *)
(*                           handle_call_tool.                             *)
(*                                                                         *)
(* The two servers are separate processes with separate documents.  Spec   *)
(* is the editing-watcher process, SpecResolve the Resolve process and     *)
(* SpecCuts applies ResolveEditingTracker.analyze_cut_patterns to every    *)
(* bounded timeline.                                                       *)
(***************************************************************************)
EXTENDS Integers, Sequences, FiniteSets, TLC

\* ------------------------------------------------------------------ bounds
MaxSessions == 2      \* sessions started in one run of the watcher process
MaxRecords == 2       \* actions and cuts recorded over all sessions
MaxTime == 3          \* seconds the clock advances
MaxClips == 3         \* clips on the host timeline
MaxActions == 3       \* actions recorded by the Resolve tracker
MaxLengths == 4       \* clips of the timelines the length statistics are run on

\* --------------------------------------------------------------- constants
Debounce == 2         \* on_modified: current_time - last_modified > 2
FastPace == 120       \* editing_pace: average < 120
Frequent == 10        \* suggest_workflow_optimization: count > 10

\* ----------------------------------------------------------------- strings
\* A caller-supplied session_id is a JSON string; it is modelled as the
\* sequence of its characters so that int() and str() are computed.
Digits == <<"0", "1", "2", "3", "4", "5", "6", "7", "8", "9">>

DigitVal(c) == (CHOOSE i \in 1..10 : Digits[i] = c) - 1

IsDigit(c) == \E i \in 1..10 : Digits[i] = c

RECURSIVE DigitsVal(_)
DigitsVal(s) ==
  IF s = <<>> THEN 0
  ELSE 10 * DigitsVal(SubSeq(s, 1, Len(s) - 1)) + DigitVal(s[Len(s)])

AllDigits(s) == Len(s) > 0 /\ \A i \in 1..Len(s) : IsDigit(s[i])

\* int(s): an optional sign followed by decimal digits, ValueError otherwise
IntOf(s) ==
  IF AllDigits(s) THEN [ok |-> TRUE, val |-> DigitsVal(s)]
  ELSE IF Len(s) > 1 /\ s[1] \in {"-", "+"} /\ AllDigits(Tail(s))
       THEN [ok |-> TRUE,
             val |-> IF s[1] = "-" THEN 0 - DigitsVal(Tail(s))
                     ELSE DigitsVal(Tail(s))]
       ELSE [ok |-> FALSE, val |-> 0]

\* str(n) for n >= 0
RECURSIVE StrOf(_)
StrOf(n) ==
  IF n < 10 THEN <<Digits[n + 1]>>
  ELSE StrOf(n \div 10) \o <<Digits[(n % 10) + 1]>>

\* ------------------------------------------------------------------ inputs
\* project_path arguments: a project file that exists, a directory that
\* exists, and a path that does not exist
ProjectPaths == {"/proj/film.drp", "/missing/film.drp"}

PathExists(p) == p = "/proj/film.drp"

\* session_id arguments of stop_learning_session, track_cut and
\* track_workflow_step (<<>> is the empty string)
SessionIdArgs ==
  {<<"0">>, <<"1">>, <<"2">>, <<"-", "1">>, <<"0", "1">>, <<"x">>, <<>>}

CutTypes == {"hard_cut", "fade"}

None == [some |-> FALSE, val |-> 0]

Some(v) == [some |-> TRUE, val |-> v]

\* duration arguments of track_cut: omitted, 0 and a length
DurationArgs == {None, Some(0), Some(5)}

Steps == {"import", "rough_cut"}

\* files the watched directory reports as modified
EventPaths ==
  {[name |-> "/proj/film", suffix |-> ".drp"],
   [name |-> "/proj/CUT", suffix |-> ".PRPROJ"],
   [name |-> "/proj/notes", suffix |-> ".txt"]}

Lower(s) == IF s = ".PRPROJ" THEN ".prproj" ELSE s

ProjectSuffixes == {".prproj", ".fcpxml", ".avp", ".drp"}

VARIABLES
  \* --- editing_watcher.py
  sessions,         \* tracker.patterns["sessions"]
  data_file,        \* editing_patterns.json
  active_sessions,  \* active_sessions: str(session_id) -> project name
  file_observers,   \* file_observers: ids with a running observer thread
  last_modified,    \* ProjectFileWatcher.last_modified, per session
  now,              \* the wall clock, in seconds
  pc,               \* the tool-call thread: "idle" or "save"
  req,              \* the tool call it is executing
  wpc,              \* per session, the observer thread: "idle" or "save"
  wloc,             \* per session, on_modified's event, file_path, current_time
  result,           \* what the last tool call returned
  \* --- davinci_resolve_mcp.py
  resolve,          \* the module-level resolve object: TRUE unless None
  host,             \* the editing host: project, timeline, failing call
  timeline,         \* the clips of the host's current timeline, per track
  editing_sessions, \* tracker.patterns["editing_sessions"]
  tool_usage,       \* tracker.patterns["tool_usage"]
  resolve_file,     \* resolve_editing_patterns.json
  reply,            \* what the last tool call of the Resolve server returned
  cut_stats         \* what a direct call of tracker.analyze_cut_patterns() returned

wvars == <<sessions, data_file, active_sessions, file_observers,
           last_modified, now, pc, req, wpc, wloc, result>>

rvars == <<resolve, host, timeline, editing_sessions, tool_usage,
           resolve_file, reply, cut_stats>>

vars == <<wvars, rvars>>

\* --------------------------------------------------- EditingBehaviorTracker
NoFile == [exists |-> FALSE, doc |-> <<>>]

\* load_patterns: the stored document, or the empty default
load_patterns(file) == IF file.exists THEN file.doc ELSE <<>>

\* save_patterns: the whole document is rewritten from memory
save_patterns(patterns) == [exists |-> TRUE, doc |-> patterns]

NewSession(project_path, t) ==
  [project |-> project_path, start_time |-> t,
   actions |-> <<>>, cuts |-> <<>>, exports |-> <<>>]

\* track_session_start with the new session put in front of the list
track_session_start_front(patterns, project_path, t) ==
  [patterns |-> <<NewSession(project_path, t)>> \o patterns,
   id |-> Len(patterns)]

\* track_session_start: the list after the append, and the returned id
track_session_start(patterns, project_path, t) ==
  LET appended == Append(patterns, NewSession(project_path, t))
  IN [patterns |-> appended, id |-> Len(appended) - 1]

\* Python list indexing: a negative index counts from the end
PyIndex(seq, i) == IF i >= 0 THEN i + 1 ELSE Len(seq) + i + 1

PyInRange(seq, i) == PyIndex(seq, i) \in 1..Len(seq)

NewAction(action_type, details, t) ==
  [timestamp |-> t, type |-> action_type, details |-> details]

\* track_action that records in the last session, whatever session_id is
track_action_last(patterns, session_id, action_type, details, t) ==
  IF session_id < Len(patterns) /\ PyInRange(patterns, session_id)
  THEN [outcome |-> "appended",
        patterns |-> [patterns EXCEPT
                        ![Len(patterns)].actions =
                          Append(@, NewAction(action_type, details, t))]]
  ELSE [outcome |-> "skipped", patterns |-> patterns]

\* track_action, up to save_patterns: "if session_id < len(sessions)"
\* guards the append, sessions[session_id] raises IndexError below -len
track_action(patterns, session_id, action_type, details, t) ==
  IF session_id < Len(patterns)
  THEN IF PyInRange(patterns, session_id)
       THEN [outcome |-> "appended",
             patterns |-> [patterns EXCEPT
                             ![PyIndex(patterns, session_id)].actions =
                               Append(@, NewAction(action_type, details, t))]]
       ELSE [outcome |-> "IndexError", patterns |-> patterns]
  ELSE [outcome |-> "skipped", patterns |-> patterns]

NewCut(cut_type, duration, reason, t) ==
  [type |-> cut_type, duration |-> duration, reason |-> reason,
   timestamp |-> t]

\* the track_cut branch of handle_call_tool, up to save_patterns
track_cut(patterns, session_id, cut_data) ==
  IF session_id < Len(patterns)
  THEN IF PyInRange(patterns, session_id)
       THEN [outcome |-> "appended",
             patterns |-> [patterns EXCEPT
                             ![PyIndex(patterns, session_id)].cuts =
                               Append(@, cut_data)]]
       ELSE [outcome |-> "IndexError", patterns |-> patterns]
  ELSE [outcome |-> "skipped", patterns |-> patterns]

\* the cuts of all sessions, in iteration order
RECURSIVE AllCuts(_)
AllCuts(patterns) ==
  IF patterns = <<>> THEN <<>>
  ELSE AllCuts(SubSeq(patterns, 1, Len(patterns) - 1))
         \o patterns[Len(patterns)].cuts

RECURSIVE SumLengths(_)
SumLengths(cuts) ==
  IF cuts = <<>> THEN 0
  ELSE SumLengths(Tail(cuts))
         + (IF Head(cuts).duration.val > 0 THEN Head(cuts).duration.val
            ELSE 0)

CountLengths(cuts) ==
  Cardinality({i \in 1..Len(cuts) : cuts[i].duration.val > 0})

\* round(sum / count, 2), in hundredths, halves to even
Round2(sum, count) ==
  LET q == (sum * 100) \div count
      r == (sum * 100) % count
  IN IF 2 * r > count \/ (2 * r = count /\ q % 2 = 1) THEN q + 1 ELSE q

\* analyze_cut_patterns with "if cut_frequencies:" for "if cut_lengths:":
\* the average is computed as soon as any cut was recorded
analyze_patterns_anycut(patterns) ==
  LET cuts == AllCuts(patterns)
      freq == [ty \in {cuts[i].type : i \in 1..Len(cuts)} |->
                 Cardinality({i \in 1..Len(cuts) : cuts[i].type = ty})]
  IN IF \E i \in 1..Len(cuts) : ~cuts[i].duration.some
     THEN [status |-> "TypeError", total_cuts |-> 0, sum |-> 0,
           cut_type_preferences |-> <<>>, suggested_cut_length |-> 0]
     ELSE IF cuts # <<>>
          THEN [status |-> "stats", total_cuts |-> CountLengths(cuts),
                sum |-> SumLengths(cuts), cut_type_preferences |-> freq,
                suggested_cut_length |->
                  IF CountLengths(cuts) = 0 THEN 0
                  ELSE Round2(SumLengths(cuts), CountLengths(cuts))]
          ELSE [status |-> "empty", total_cuts |-> 0, sum |-> 0,
                cut_type_preferences |-> <<>>, suggested_cut_length |-> 0]

\* EditingBehaviorTracker.analyze_cut_patterns: "length > 0" raises
\* TypeError on a cut whose duration is None
analyze_patterns(patterns) ==
  LET cuts == AllCuts(patterns)
      freq == [ty \in {cuts[i].type : i \in 1..Len(cuts)} |->
                 Cardinality({i \in 1..Len(cuts) : cuts[i].type = ty})]
  IN IF \E i \in 1..Len(cuts) : ~cuts[i].duration.some
     THEN [status |-> "TypeError", total_cuts |-> 0, sum |-> 0,
           cut_type_preferences |-> <<>>, suggested_cut_length |-> 0]
     ELSE IF CountLengths(cuts) > 0
          THEN [status |-> "stats", total_cuts |-> CountLengths(cuts),
                sum |-> SumLengths(cuts), cut_type_preferences |-> freq,
                suggested_cut_length |->
                  Round2(SumLengths(cuts), CountLengths(cuts))]
          ELSE [status |-> "empty", total_cuts |-> 0, sum |-> 0,
                cut_type_preferences |-> <<>>, suggested_cut_length |-> 0]

\* ------------------------------------------------------- ProjectFileWatcher
\* on_modified with one last_modified time for all paths
on_modified_records_anypath(seen, event, t) ==
  /\ ~event.is_directory
  /\ Lower(event.src_path.suffix) \in ProjectSuffixes
  /\ \A p \in DOMAIN seen : ~seen[p].some \/ t - seen[p].val > Debounce

\* on_modified's test: a file, a project suffix, and not debounced
on_modified_records(seen, event, t) ==
  /\ ~event.is_directory
  /\ Lower(event.src_path.suffix) \in ProjectSuffixes
  /\ \/ ~seen[event.src_path].some
     \/ t - seen[event.src_path].val > Debounce

Events == [is_directory : BOOLEAN, src_path : EventPaths]

NeverModified == [p \in EventPaths |-> None]

\* ------------------------------------------- editing_watcher handle_call_tool
RECURSIVE Recorded(_)
Recorded(patterns) ==
  IF patterns = <<>> THEN 0
  ELSE Recorded(Tail(patterns)) + Len(Head(patterns).actions)
         + Len(Head(patterns).cuts)

Reply(tool, kind, text, id, body) ==
  [tool |-> tool, kind |-> kind, text |-> text, id |-> id, body |-> body]

NoReply == Reply("", "none", "", 0, <<>>)

Raise(tool, error) == Reply(tool, "raise", error, 0, <<>>)

\* the tools handle_list_tools advertises
WatcherCatalogue ==
  {"start_learning_session", "stop_learning_session", "track_cut",
   "get_editing_insights", "track_workflow_step", "suggest_next_action"}

Put(f, k, v) == [x \in DOMAIN f \cup {k} |-> IF x = k THEN v ELSE f[x]]

\* a del that removes nothing
Drop_nothing(f, k) == f

Drop(f, k) == [x \in DOMAIN f \ {k} |-> f[x]]

\* the tool-call thread is in no handler
NoRequest == [tool |-> "", session_id |-> 0, argument |-> ""]

WatcherInit ==
  /\ sessions = load_patterns(NoFile)
  /\ data_file = NoFile
  /\ active_sessions = <<>>
  /\ file_observers = {}
  /\ last_modified = <<>>
  /\ now = 0
  /\ pc = "idle"
  /\ req = NoRequest
  /\ wpc = <<>>
  /\ wloc = <<>>
  /\ result = NoReply

\* name == "start_learning_session"
StartLearningSession(project_path) ==
  /\ pc = "idle"
  /\ Len(sessions) < MaxSessions
  /\ LET started == track_session_start(sessions, project_path, now)
         session_id == started.id
     IN /\ sessions' = started.patterns
        /\ IF PathExists(project_path)
           THEN /\ file_observers' = file_observers \cup {session_id}
                /\ last_modified' = Put(last_modified, session_id, NeverModified)
                /\ wpc' = Put(wpc, session_id, "idle")
                /\ wloc' = Put(wloc, session_id,
                               [is_directory |-> FALSE,
                                file_path |-> CHOOSE e \in EventPaths : TRUE,
                                current_time |-> 0])
           ELSE UNCHANGED <<file_observers, last_modified, wpc, wloc>>
        /\ active_sessions' = Put(active_sessions, StrOf(session_id), project_path)
        /\ result' = Reply("start_learning_session", "text",
                           "Started learning session", session_id, <<>>)
  /\ UNCHANGED <<data_file, now, pc, req>>
  /\ UNCHANGED rvars

\* name == "stop_learning_session"; arg <<>> is an absent or empty session_id
StopLearningSession(arg) ==
  /\ pc = "idle"
  /\ IF arg # <<>> /\ arg \in DOMAIN active_sessions
     THEN /\ file_observers' = file_observers \ {IntOf(arg).val}
          /\ active_sessions' = Drop(active_sessions, arg)
          /\ result' =
               IF analyze_patterns(sessions).status = "TypeError"
               THEN Raise("stop_learning_session", "TypeError")
               ELSE Reply("stop_learning_session", "text",
                          "Stopped learning session", IntOf(arg).val, <<>>)
     ELSE /\ result' = Reply("stop_learning_session", "text",
                             "No active session found", 0, <<>>)
          /\ UNCHANGED <<file_observers, active_sessions>>
  /\ UNCHANGED <<sessions, data_file, last_modified, now, pc, req, wpc, wloc>>
  /\ UNCHANGED rvars

\* name == "track_cut", up to save_patterns
TrackCut(arg, cut_type, duration) ==
  /\ pc = "idle"
  /\ LET parsed == IntOf(arg)
         done == track_cut(sessions, parsed.val,
                           NewCut(cut_type, duration, None, now))
     IN IF ~parsed.ok
        THEN /\ result' = Raise("track_cut", "ValueError")
             /\ UNCHANGED <<sessions, pc, req>>
        ELSE IF done.outcome = "appended"
        THEN /\ Recorded(sessions) < MaxRecords
             /\ sessions' = done.patterns
             /\ pc' = "save"
             /\ req' = [tool |-> "track_cut", session_id |-> parsed.val,
                      argument |-> cut_type]
             /\ UNCHANGED result
        ELSE /\ result' = IF done.outcome = "IndexError"
                          THEN Raise("track_cut", "IndexError")
                          ELSE Reply("track_cut", "none", "", 0, <<>>)
             /\ UNCHANGED <<sessions, pc, req>>
  /\ UNCHANGED <<data_file, active_sessions, file_observers, last_modified,
                 now, wpc, wloc>>
  /\ UNCHANGED rvars

\* name == "track_workflow_step", up to save_patterns
TrackWorkflowStep(arg, step) ==
  /\ pc = "idle"
  /\ LET parsed == IntOf(arg)
         done == track_action(sessions, parsed.val, "workflow_step",
                              [step |-> step, duration_minutes |-> None], now)
     IN IF ~parsed.ok
        THEN /\ result' = Raise("track_workflow_step", "ValueError")
             /\ UNCHANGED <<sessions, pc, req>>
        ELSE IF done.outcome = "appended"
        THEN /\ Recorded(sessions) < MaxRecords
             /\ sessions' = done.patterns
             /\ pc' = "save"
             /\ req' = [tool |-> "track_workflow_step", session_id |-> parsed.val,
                      argument |-> step]
             /\ UNCHANGED result
        ELSE /\ result' = IF done.outcome = "IndexError"
                          THEN Raise("track_workflow_step", "IndexError")
                          ELSE Reply("track_workflow_step", "text",
                                     "Tracked workflow step", 0, <<>>)
             /\ UNCHANGED <<sessions, pc, req>>
  /\ UNCHANGED <<data_file, active_sessions, file_observers, last_modified,
                 now, wpc, wloc>>
  /\ UNCHANGED rvars

\* save_patterns and the return of track_cut / track_workflow_step
ToolSave ==
  /\ pc = "save"
  /\ data_file' = save_patterns(sessions)
  /\ pc' = "idle"
  /\ result' = Reply(req.tool, "text",
                     IF req.tool = "track_cut" THEN "Tracked cut"
                     ELSE "Tracked workflow step", req.session_id, <<>>)
  /\ req' = NoRequest
  /\ UNCHANGED <<sessions, active_sessions, file_observers, last_modified,
                 now, wpc, wloc>>
  /\ UNCHANGED rvars

\* name == "get_editing_insights"
GetEditingInsights ==
  /\ pc = "idle"
  /\ LET insights == analyze_patterns(sessions)
     IN result' = IF insights.status = "TypeError"
                  THEN Raise("get_editing_insights", "TypeError")
                  ELSE Reply("get_editing_insights", "text", "report",
                             Len(sessions), <<insights.status>>)
  /\ UNCHANGED <<sessions, data_file, active_sessions, file_observers,
                 last_modified, now, pc, req, wpc, wloc>>
  /\ UNCHANGED rvars

CurrentSteps == {"rough_cut", "import", ""}

\* the suggestions list of suggest_next_action
next_action_suggestions(patterns, current_step) ==
  LET specific ==
        IF current_step = "rough_cut"
        THEN IF analyze_patterns(patterns).suggested_cut_length # 0
             THEN <<"consider cuts">> ELSE <<>>
        ELSE IF current_step = "import" THEN <<"move to rough_cut">>
        ELSE <<>>
  IN IF specific = <<>> THEN <<"still learning">> ELSE specific

\* name == "suggest_next_action"
SuggestNextAction(current_step) ==
  /\ pc = "idle"
  /\ result' =
       IF current_step = "rough_cut"
          /\ analyze_patterns(sessions).status = "TypeError"
       THEN Raise("suggest_next_action", "TypeError")
       ELSE Reply("suggest_next_action", "text", "Suggestions", 0,
                  next_action_suggestions(sessions, current_step))
  /\ UNCHANGED <<sessions, data_file, active_sessions, file_observers,
                 last_modified, now, pc, req, wpc, wloc>>
  /\ UNCHANGED rvars

\* the final else: raise ValueError(f"Unknown tool: {name}")
UnknownWatcherTool(name) ==
  /\ pc = "idle"
  /\ name \notin WatcherCatalogue
  /\ result' = Raise(name, "ValueError: Unknown tool")
  /\ UNCHANGED <<sessions, data_file, active_sessions, file_observers,
                 last_modified, now, pc, req, wpc, wloc>>
  /\ UNCHANGED rvars

\* ProjectFileWatcher.on_modified in the observer thread of session_id, up
\* to save_patterns; an event that is filtered out or debounced changes
\* nothing
OnModified(session_id, event) ==
  /\ session_id \in file_observers
  /\ wpc[session_id] = "idle"
  /\ Recorded(sessions) < MaxRecords
  /\ on_modified_records(last_modified[session_id], event, now)
  /\ sessions' = track_action(sessions, session_id, "project_save",
                              [file |-> event.src_path,
                               file_type |-> Lower(event.src_path.suffix)],
                              now).patterns
  /\ wpc' = [wpc EXCEPT ![session_id] = "save"]
  /\ wloc' = [wloc EXCEPT ![session_id] =
                [is_directory |-> event.is_directory,
                 file_path |-> event.src_path, current_time |-> now]]
  /\ UNCHANGED <<data_file, active_sessions, file_observers, last_modified,
                 now, pc, req, result>>
  /\ UNCHANGED rvars

\* the rest of on_modified: save_patterns inside track_action, then
\* self.last_modified[file_path] = current_time
WatcherSave(session_id) ==
  /\ session_id \in DOMAIN wpc
  /\ wpc[session_id] = "save"
  /\ data_file' = save_patterns(sessions)
  /\ last_modified' = [last_modified EXCEPT
                         ![session_id][wloc[session_id].file_path] =
                           Some(wloc[session_id].current_time)]
  /\ wpc' = [wpc EXCEPT ![session_id] = "idle"]
  /\ UNCHANGED <<sessions, active_sessions, file_observers, now, pc, req,
                 wloc, result>>
  /\ UNCHANGED rvars

\* the wall clock advances
Tick ==
  /\ now < MaxTime
  /\ now' = now + 1
  /\ UNCHANGED <<sessions, data_file, active_sessions, file_observers,
                 last_modified, pc, req, wpc, wloc, result>>
  /\ UNCHANGED rvars

WatcherNext ==
  \/ \E p \in ProjectPaths : StartLearningSession(p)
  \/ \E a \in SessionIdArgs : StopLearningSession(a)
  \/ \E a \in SessionIdArgs, c \in CutTypes, d \in DurationArgs : TrackCut(a, c, d)
  \/ \E a \in SessionIdArgs, st \in Steps : TrackWorkflowStep(a, st)
  \/ ToolSave
  \/ GetEditingInsights
  \/ \E st \in CurrentSteps : SuggestNextAction(st)
  \/ \E n \in WatcherCatalogue \cup {"export_session"} : UnknownWatcherTool(n)
  \/ \E s \in file_observers, e \in Events : OnModified(s, e)
  \/ \E s \in DOMAIN wpc : WatcherSave(s)


\* ----------------------------------------------------- ResolveEditingTracker
\* (start, end) of the clips the host reports, and their durations; the
\* host does not keep duration = end - start
Spans == {<<0, 100>>, <<100, 250>>, <<240, 300>>, <<100, 240>>}

ClipDurations == {0, 60, 100, 150}

ClipInfos ==
  {[start |-> sp[1], end |-> sp[2], duration |-> d] :
     sp \in Spans, d \in ClipDurations}

\* the host calls that can raise inside analyze_current_timeline
HostCalls == {"GetCurrentProject", "GetItemsInTrack"}

Hosts == [project : BOOLEAN, timeline : BOOLEAN,
          raises : HostCalls \cup {"never"}]

\* clip_data of one track, in the order of clips.items()
RECURSIVE TrackClips(_, _, _)
TrackClips(track_type, track_index, items) ==
  IF Len(items) = 0 THEN <<>>
  ELSE TrackClips(track_type, track_index, SubSeq(items, 1, Len(items) - 1))
         \o <<[track_type |-> track_type, track_index |-> track_index,
               start |-> items[Len(items)].start,
               end |-> items[Len(items)].end,
               duration |-> items[Len(items)].duration]>>

\* for track_index in range(1, track_count + 1)
RECURSIVE TypeClips(_, _, _)
TypeClips(track_type, tracks, track_count) ==
  IF track_count = 0 THEN <<>>
  ELSE TypeClips(track_type, tracks, track_count - 1)
         \o TrackClips(track_type, track_count, tracks[track_count])

TimelineError(error) == [error |-> error, track_count |-> 0, clips |-> <<>>]

\* analyze_current_timeline with the exception of GetItemsInTrack swallowed:
\* the snapshot read so far is returned
analyze_current_timeline_partial(api, h, tl) ==
  IF ~api THEN TimelineError("Resolve API not available")
  ELSE IF h.raises = "GetCurrentProject"
  THEN TimelineError("Timeline analysis failed")
  ELSE IF ~h.project THEN TimelineError("No project loaded")
  ELSE IF ~h.timeline THEN TimelineError("No timeline selected")
  ELSE IF h.raises = "GetItemsInTrack"
  THEN [error |-> "", track_count |-> Len(tl.video) + Len(tl.audio),
        clips |-> <<>>]
  ELSE [error |-> "",
        track_count |-> Len(tl.video) + Len(tl.audio),
        clips |-> TypeClips("video", tl.video, Len(tl.video))
                    \o TypeClips("audio", tl.audio, Len(tl.audio))]

\* ResolveEditingTracker.analyze_current_timeline
analyze_current_timeline(api, h, tl) ==
  IF ~api THEN TimelineError("Resolve API not available")
  ELSE IF h.raises = "GetCurrentProject"
  THEN TimelineError("Timeline analysis failed")
  ELSE IF ~h.project THEN TimelineError("No project loaded")
  ELSE IF ~h.timeline THEN TimelineError("No timeline selected")
  ELSE IF h.raises = "GetItemsInTrack"
  THEN TimelineError("Timeline analysis failed")
  ELSE [error |-> "",
        track_count |-> Len(tl.video) + Len(tl.audio),
        clips |-> TypeClips("video", tl.video, Len(tl.video))
                    \o TypeClips("audio", tl.audio, Len(tl.audio))]

\* [c for c in clips if c["track_type"] == "video"]
RECURSIVE VideoClips(_)
VideoClips(clips) ==
  IF clips = <<>> THEN <<>>
  ELSE IF Head(clips).track_type = "video"
       THEN <<Head(clips)>> \o VideoClips(Tail(clips))
       ELSE VideoClips(Tail(clips))

\* an unstable sort: a clip goes in front of the clips with an equal key
RECURSIVE InsertByStart_unstable(_, _)
InsertByStart_unstable(sorted, clip) ==
  IF sorted = <<>> THEN <<clip>>
  ELSE IF sorted[Len(sorted)].start < clip.start
       THEN Append(sorted, clip)
       ELSE Append(InsertByStart_unstable(SubSeq(sorted, 1, Len(sorted) - 1),
                                          clip),
                   sorted[Len(sorted)])

\* list.sort is stable: a clip goes behind every clip whose key is not larger
RECURSIVE InsertByStart(_, _)
InsertByStart(sorted, clip) ==
  IF sorted = <<>> THEN <<clip>>
  ELSE IF sorted[Len(sorted)].start <= clip.start
       THEN Append(sorted, clip)
       ELSE Append(InsertByStart(SubSeq(sorted, 1, Len(sorted) - 1), clip),
                   sorted[Len(sorted)])

\* video_clips.sort(key=lambda x: x["start"])
RECURSIVE SortByStart(_)
SortByStart(clips) ==
  IF clips = <<>> THEN <<>>
  ELSE InsertByStart(SortByStart(SubSeq(clips, 1, Len(clips) - 1)),
                     clips[Len(clips)])

\* the loop without "if duration > 0": every duration is a cut length
RECURSIVE CutLengths_all(_)
CutLengths_all(video_clips) ==
  IF video_clips = <<>> THEN <<>>
  ELSE <<Head(video_clips).duration>> \o CutLengths_all(Tail(video_clips))

\* the durations > 0, in the order of the loop
RECURSIVE CutLengths(_)
CutLengths(video_clips) ==
  IF video_clips = <<>> THEN <<>>
  ELSE IF Head(video_clips).duration > 0
       THEN <<Head(video_clips).duration>> \o CutLengths(Tail(video_clips))
       ELSE CutLengths(Tail(video_clips))

\* the classification of the pair (video_clips[i-1], video_clips[i])
CutTypeOf(prev_clip, clip) ==
  LET gap == clip.start - prev_clip.end
  IN IF gap = 0 THEN "hard_cut" ELSE IF gap > 0 THEN "gap" ELSE "overlap"

\* cut_types[k] = cut_types.get(k, 0) + 1
Bump(counts, k) ==
  [x \in DOMAIN counts \cup {k} |->
     IF x = k THEN (IF k \in DOMAIN counts THEN counts[k] ELSE 0) + 1
     ELSE counts[x]]

\* the loop with "if i > 1" for "if i > 0": the first pair is not classified
RECURSIVE CutTypeCounts_from2(_, _)
CutTypeCounts_from2(video_clips, n) ==
  IF n <= 2 THEN <<>>
  ELSE Bump(CutTypeCounts_from2(video_clips, n - 1),
            CutTypeOf(video_clips[n - 1], video_clips[n]))

\* the cut_types dict after the loop over video_clips[1..n]
RECURSIVE CutTypeCounts(_, _)
CutTypeCounts(video_clips, n) ==
  IF n <= 1 THEN <<>>
  ELSE Bump(CutTypeCounts(video_clips, n - 1),
            CutTypeOf(video_clips[n - 1], video_clips[n]))

RECURSIVE SumOf(_)
SumOf(nums) == IF nums = <<>> THEN 0 ELSE Head(nums) + SumOf(Tail(nums))

\* the first cut length for the smallest
MinOf_first(nums) == nums[1]

MinOf(nums) == CHOOSE x \in {nums[i] : i \in 1..Len(nums)} :
                 \A i \in 1..Len(nums) : x <= nums[i]

MaxOf(nums) == CHOOSE x \in {nums[i] : i \in 1..Len(nums)} :
                 \A i \in 1..Len(nums) : x >= nums[i]

RECURSIVE InsertNum(_, _)
InsertNum(sorted, x) ==
  IF sorted = <<>> THEN <<x>>
  ELSE IF sorted[Len(sorted)] <= x THEN Append(sorted, x)
       ELSE Append(InsertNum(SubSeq(sorted, 1, Len(sorted) - 1), x),
                   sorted[Len(sorted)])

\* cut_lengths left in the order of the loop
Sorted_unsorted(nums) == nums

\* sorted(cut_lengths)
RECURSIVE Sorted(_)
Sorted(nums) ==
  IF nums = <<>> THEN <<>>
  ELSE InsertNum(Sorted(SubSeq(nums, 1, Len(nums) - 1)), nums[Len(nums)])

\* the pace with "<= 120" for "< 120"
editing_pace_inclusive(sum, count) ==
  IF sum <= FastPace * count THEN "fast" ELSE "slow"

\* "fast" if sum(cut_lengths) / len(cut_lengths) < 120 else "slow"
editing_pace(sum, count) ==
  IF sum < FastPace * count THEN "fast" ELSE "slow"

CutsError(error) ==
  [error |-> error, total_cuts |-> 0, sum |-> 0, shortest_cut |-> 0,
   longest_cut |-> 0, cut_types |-> <<>>, median_cut_length |-> 0,
   editing_pace |-> ""]

\* ResolveEditingTracker.analyze_cut_patterns on the snapshot timeline_data;
\* average_cut_length is sum / total_cuts
analyze_cut_patterns(timeline_data) ==
  IF timeline_data.error # "" THEN CutsError(timeline_data.error)
  ELSE LET video_clips == SortByStart(VideoClips(timeline_data.clips))
           cut_lengths == CutLengths(video_clips)
       IN IF cut_lengths # <<>>
          THEN [error |-> "",
                total_cuts |-> Len(cut_lengths),
                sum |-> SumOf(cut_lengths),
                shortest_cut |-> MinOf(cut_lengths),
                longest_cut |-> MaxOf(cut_lengths),
                cut_types |-> CutTypeCounts(video_clips, Len(video_clips)),
                median_cut_length |->
                  Sorted(cut_lengths)[(Len(cut_lengths) \div 2) + 1],
                editing_pace |->
                  editing_pace(SumOf(cut_lengths), Len(cut_lengths))]
          ELSE CutsError("No cuts found")

\* track_editing_action, up to save_patterns: the first action opens the
\* only session, every action goes to the last session
track_editing_action(patterns, action_type, details, t) ==
  LET opened == IF patterns = <<>>
                THEN <<[start_time |-> t, actions |-> <<>>]>>
                ELSE patterns
  IN [opened EXCEPT ![Len(opened)].actions =
        Append(@, NewAction(action_type, details, t))]

\* the document save_patterns writes
ResolveDocument(patterns, counters) ==
  [exists |-> TRUE,
   doc |-> [editing_sessions |-> patterns, tool_usage |-> counters]]

NoResolveFile ==
  [exists |-> FALSE, doc |-> [editing_sessions |-> <<>>, tool_usage |-> <<>>]]

\* count_tool_usage that stores 1 instead of the old count plus 1
count_tool_usage_reset(counters, page, tool_name) ==
  LET paged == IF page \in DOMAIN counters THEN counters
               ELSE Put(counters, page, <<>>)
  IN [paged EXCEPT ![page] = Put(@, tool_name, 1)]

\* tool_usage[page][tool_name] = tool_usage[page].get(tool_name, 0) + 1,
\* after "if page not in tool_usage: tool_usage[page] = {}"
count_tool_usage(counters, page, tool_name) ==
  LET paged == IF page \in DOMAIN counters THEN counters
               ELSE Put(counters, page, <<>>)
  IN [paged EXCEPT ![page] = Bump(@, tool_name)]

\* the actions appended in this run of the process: those of a loaded
\* document are stamped before its start
RECURSIVE ActionCount(_)
ActionCount(patterns) ==
  IF patterns = <<>> THEN 0
  ELSE ActionCount(Tail(patterns))
         + Cardinality({i \in 1..Len(Head(patterns).actions) :
                          Head(patterns).actions[i].timestamp >= 0})

\* ------------------------------------------ davinci_resolve handle_call_tool
\* the tools handle_list_tools advertises
ResolveCatalogue ==
  {"connect_to_resolve", "analyze_current_timeline", "track_editing_session",
   "get_project_info", "analyze_cut_patterns", "get_color_grading_info",
   "track_tool_usage", "export_timeline_data", "get_editing_insights",
   "suggest_workflow_optimization"}

\* the names handle_call_tool has a branch for
ResolveBranches ==
  {"connect_to_resolve", "analyze_current_timeline", "get_project_info",
   "analyze_cut_patterns", "track_tool_usage", "get_editing_insights",
   "suggest_workflow_optimization"}

Pages == {"color", "edit"}

ToolNames == {"Qualifier", "Blade"}

NotAnalyzed == CutsError("not analyzed")

EmptyTimeline == [video |-> <<<<>>, <<>>>>, audio |-> <<<<>>>>]

\* the timelines the Resolve server is run against: empty, the three-clip
\* scenario, one long clip next to an audio clip, and a zero-length clip
HostTimelines ==
  {EmptyTimeline,
   [video |-> <<<<[start |-> 0, end |-> 100, duration |-> 100],
                  [start |-> 100, end |-> 250, duration |-> 150],
                  [start |-> 240, end |-> 300, duration |-> 60]>>, <<>>>>,
    audio |-> <<<<>>>>],
   [video |-> <<<<[start |-> 0, end |-> 100, duration |-> 150]>>, <<>>>>,
    audio |-> <<<<[start |-> 0, end |-> 100, duration |-> 100]>>>>],
   [video |-> <<<<>>, <<[start |-> 100, end |-> 300, duration |-> 0]>>>>,
    audio |-> <<<<>>>>]}

ResolveInit ==
  /\ resolve \in BOOLEAN
  /\ host \in Hosts
  /\ timeline \in HostTimelines
  /\ editing_sessions = <<>>
  /\ tool_usage = <<>>
  /\ resolve_file = NoResolveFile
  /\ reply = NoReply
  /\ cut_stats = NotAnalyzed

\* the Resolve server is not running
ResolveOff ==
  /\ resolve = FALSE
  /\ host = [project |-> FALSE, timeline |-> FALSE, raises |-> "never"]
  /\ timeline = EmptyTimeline
  /\ editing_sessions = <<>>
  /\ tool_usage = <<>>
  /\ resolve_file = NoResolveFile
  /\ reply = NoReply
  /\ cut_stats = NotAnalyzed

\* the user opens or closes a project or timeline, or the host starts or
\* stops failing
HostChange(h) ==
  /\ h # host
  /\ host' = h
  /\ UNCHANGED <<resolve, timeline, editing_sessions, tool_usage,
                 resolve_file, reply, cut_stats>>
  /\ UNCHANGED wvars

\* name == "connect_to_resolve"
ConnectToResolve ==
  /\ reply' =
       IF ~resolve
       THEN Reply("connect_to_resolve", "text", "API not available", 0, <<>>)
       ELSE IF host.raises # "never"
       THEN Reply("connect_to_resolve", "text", "Failed to connect", 0, <<>>)
       ELSE Reply("connect_to_resolve", "text", "Connected", 0,
                  IF ~host.project THEN <<"No project loaded">>
                  ELSE IF ~host.timeline
                       THEN <<"project", "No timeline selected">>
                       ELSE <<"project", "timeline">>)
  /\ UNCHANGED <<resolve, host, timeline, editing_sessions, tool_usage,
                 resolve_file, cut_stats>>
  /\ UNCHANGED wvars

\* name == "analyze_current_timeline"
AnalyzeCurrentTimeline ==
  /\ LET timeline_data == analyze_current_timeline(resolve, host, timeline)
     IN IF timeline_data.error # ""
        THEN /\ reply' = Reply("analyze_current_timeline", "text",
                               timeline_data.error, 0, <<>>)
             /\ UNCHANGED <<editing_sessions, resolve_file>>
        ELSE /\ ActionCount(editing_sessions) < MaxActions
             /\ editing_sessions' =
                  track_editing_action(editing_sessions, "timeline_analysis",
                                       timeline_data, now)
             /\ resolve_file' = ResolveDocument(editing_sessions', tool_usage)
             /\ reply' = Reply("analyze_current_timeline", "text",
                               "Timeline Analysis", Len(timeline_data.clips),
                               <<>>)
  /\ UNCHANGED <<resolve, host, timeline, tool_usage, cut_stats>>
  /\ UNCHANGED wvars

\* name == "get_project_info"
GetProjectInfo ==
  /\ reply' =
       IF ~resolve
       THEN Reply("get_project_info", "text", "Resolve API not available",
                  0, <<>>)
       ELSE IF host.raises # "never"
       THEN Reply("get_project_info", "text", "Error getting project info",
                  0, <<>>)
       ELSE IF ~host.project
       THEN Reply("get_project_info", "text", "No project loaded", 0, <<>>)
       ELSE Reply("get_project_info", "text", "Project", 0, <<>>)
  /\ UNCHANGED <<resolve, host, timeline, editing_sessions, tool_usage,
                 resolve_file, cut_stats>>
  /\ UNCHANGED wvars

\* name == "analyze_cut_patterns"
AnalyzeCutPatterns ==
  /\ LET patterns ==
           analyze_cut_patterns(analyze_current_timeline(resolve, host, timeline))
     IN /\ UNCHANGED cut_stats
        /\ IF patterns.error # ""
           THEN /\ reply' = Reply("analyze_cut_patterns", "text",
                                  patterns.error, 0, <<>>)
                /\ UNCHANGED <<editing_sessions, resolve_file>>
           ELSE /\ ActionCount(editing_sessions) < MaxActions
                /\ editing_sessions' =
                     track_editing_action(editing_sessions, "cut_analysis",
                                          patterns, now)
                /\ resolve_file' = ResolveDocument(editing_sessions', tool_usage)
                /\ reply' = Reply("analyze_cut_patterns", "text",
                                  "Cut Pattern Analysis", patterns.total_cuts,
                                  <<>>)
  /\ UNCHANGED <<resolve, host, timeline, tool_usage>>
  /\ UNCHANGED wvars

\* name == "track_tool_usage"
TrackToolUsage(tool_name, page) ==
  /\ ActionCount(editing_sessions) < MaxActions
  /\ tool_usage' = count_tool_usage(tool_usage, page, tool_name)
  /\ editing_sessions' =
       track_editing_action(editing_sessions, "tool_usage",
                            [tool |-> tool_name, page |-> page,
                             timestamp |-> now], now)
  /\ resolve_file' = ResolveDocument(editing_sessions', tool_usage')
  /\ reply' = Reply("track_tool_usage", "text", "Tracked usage", 0,
                    <<tool_name, page>>)
  /\ UNCHANGED <<resolve, host, timeline, cut_stats>>
  /\ UNCHANGED wvars

\* all_tools: the (page, tool, count) entries of tool_usage
AllTools(counters) ==
  UNION {{<<pg, tl, counters[pg][tl]>> : tl \in DOMAIN counters[pg]} :
           pg \in DOMAIN counters}

Repeat(x, n) == [i \in 1..n |-> x]

\* the insights list of get_editing_insights
editing_insights(patterns, counters, timeline_patterns) ==
  LET listed ==
        (IF patterns # <<>> THEN <<"sessions">> ELSE <<>>)
        \o (IF AllTools(counters) # {} THEN <<"most used tool">> ELSE <<>>)
        \o (IF timeline_patterns.error = ""
            THEN <<"editing pace", "average cut length">> ELSE <<>>)
  IN IF listed = <<>> THEN <<"Keep editing">> ELSE listed

\* name == "get_editing_insights"
GetResolveInsights ==
  /\ LET timeline_patterns ==
           analyze_cut_patterns(analyze_current_timeline(resolve, host, timeline))
     IN /\ UNCHANGED cut_stats
        /\ reply' = Reply("get_editing_insights", "text", "Editing Insights", 0,
                          editing_insights(editing_sessions, tool_usage,
                                           timeline_patterns))
  /\ UNCHANGED <<resolve, host, timeline, editing_sessions, tool_usage,
                 resolve_file>>
  /\ UNCHANGED wvars

\* ['quick', 'medium', 'slow'][min(2, int(avg_cut / 100))]
PaceBucket(sum, count) ==
  LET bucket == sum \div (100 * count)
  IN <<"quick", "medium", "slow">>[(IF bucket < 2 THEN bucket ELSE 2) + 1]

\* suggest_workflow_optimization without "if not suggestions: append"
workflow_suggestions_nofallback(counters, timeline_patterns) ==
  Repeat("learn shortcut",
         Cardinality({e \in AllTools(counters) : e[3] > Frequent}))
  \o (IF timeline_patterns.error = ""
      THEN (IF timeline_patterns.editing_pace = "fast"
            THEN <<"use the Cut page">> ELSE <<>>)
           \o (IF timeline_patterns.sum > 0
               THEN <<PaceBucket(timeline_patterns.sum,
                                 timeline_patterns.total_cuts)>>
               ELSE <<>>)
      ELSE <<>>)

\* the suggestions list of suggest_workflow_optimization
workflow_suggestions(counters, timeline_patterns) ==
  LET listed ==
        Repeat("learn shortcut",
               Cardinality({e \in AllTools(counters) : e[3] > Frequent}))
        \o (IF timeline_patterns.error = ""
            THEN (IF timeline_patterns.editing_pace = "fast"
                  THEN <<"use the Cut page">> ELSE <<>>)
                 \o (IF timeline_patterns.sum > 0
                     THEN <<PaceBucket(timeline_patterns.sum,
                                       timeline_patterns.total_cuts)>>
                     ELSE <<>>)
            ELSE <<>>)
  IN IF listed = <<>> THEN <<"Keep editing">> ELSE listed

\* name == "suggest_workflow_optimization"
SuggestWorkflowOptimization ==
  /\ LET timeline_patterns ==
           analyze_cut_patterns(analyze_current_timeline(resolve, host, timeline))
     IN /\ UNCHANGED cut_stats
        /\ reply' = Reply("suggest_workflow_optimization", "text",
                          "Workflow Optimization Suggestions", 0,
                          workflow_suggestions(tool_usage, timeline_patterns))
  /\ UNCHANGED <<resolve, host, timeline, editing_sessions, tool_usage,
                 resolve_file>>
  /\ UNCHANGED wvars

\* the final else: raise ValueError(f"Unknown tool: {name}")
UnknownResolveTool(name) ==
  /\ name \notin ResolveBranches
  /\ reply' = Raise(name, "ValueError: Unknown tool")
  /\ UNCHANGED <<resolve, host, timeline, editing_sessions, tool_usage,
                 resolve_file, cut_stats>>
  /\ UNCHANGED wvars

ResolveNext ==
  \/ \E h \in Hosts : HostChange(h)
  \/ ConnectToResolve
  \/ AnalyzeCurrentTimeline
  \/ GetProjectInfo
  \/ AnalyzeCutPatterns
  \/ \E tl \in ToolNames, pg \in Pages : TrackToolUsage(tl, pg)
  \/ GetResolveInsights
  \/ SuggestWorkflowOptimization
  \/ \E n \in ResolveCatalogue \cup {"render_timeline"} : UnknownResolveTool(n)

\* tracker.analyze_cut_patterns() on a timeline that was not analyzed yet
Analyze ==
  /\ cut_stats = NotAnalyzed
  /\ cut_stats' =
       analyze_cut_patterns(analyze_current_timeline(resolve, host, timeline))
  /\ UNCHANGED <<resolve, host, timeline, editing_sessions, tool_usage,
                 resolve_file, reply>>
  /\ UNCHANGED wvars

\* every timeline of two video tracks and one audio track with at most
\* MaxClips clips, in a host with a project and a timeline open
CutsInit ==
  /\ resolve = TRUE
  /\ host = [project |-> TRUE, timeline |-> TRUE, raises |-> "never"]
  /\ \E n1 \in 0..MaxClips, n2 \in 0..MaxClips, n3 \in 0..MaxClips :
       /\ n1 + n2 + n3 <= MaxClips
       /\ \E v1 \in [1..n1 -> ClipInfos], v2 \in [1..n2 -> ClipInfos],
             a1 \in [1..n3 -> ClipInfos] :
            timeline = [video |-> <<v1, v2>>, audio |-> <<a1>>]
  /\ editing_sessions = <<>>
  /\ tool_usage = <<>>
  /\ resolve_file = NoResolveFile
  /\ reply = NoReply
  /\ cut_stats = NotAnalyzed

\* resolve_editing_patterns.json as an earlier run left it after Frequent
\* calls of track_tool_usage("Qualifier", "color")
StoredUsage ==
  ResolveDocument(
    <<[start_time |-> 0 - 1,
       actions |-> Repeat(NewAction("tool_usage",
                                    [tool |-> "Qualifier", page |-> "color",
                                     timestamp |-> 0 - 1], 0 - 1),
                          Frequent)]>>,
    [pg \in {"color"} |-> [tl \in {"Qualifier"} |-> Frequent]])

\* ResolveEditingTracker.load_patterns
load_resolve_patterns(file) == file.doc

\* the Resolve server starts on no document or on the stored one
SuggestInit ==
  /\ resolve \in BOOLEAN
  /\ host \in Hosts
  /\ timeline \in HostTimelines
  /\ resolve_file \in {NoResolveFile, StoredUsage}
  /\ editing_sessions = load_resolve_patterns(resolve_file).editing_sessions
  /\ tool_usage = load_resolve_patterns(resolve_file).tool_usage
  /\ reply = NoReply
  /\ cut_stats = NotAnalyzed

\* the durations of the clips the length statistics are run on
LengthValues == {10, 20, 30, 40, 120, 200}

\* every timeline of at most MaxLengths clips on video track 1, each with
\* one of the durations, in any order, in a host with a project and a
\* timeline open
LengthsInit ==
  /\ resolve = TRUE
  /\ host = [project |-> TRUE, timeline |-> TRUE, raises |-> "never"]
  /\ \E n \in 0..MaxLengths : \E ds \in [1..n -> LengthValues] :
       timeline = [video |-> <<[i \in 1..n |->
                                  [start |-> 0, end |-> 100,
                                   duration |-> ds[i]]],
                               <<>>>>,
                   audio |-> <<<<>>>>]
  /\ editing_sessions = <<>>
  /\ tool_usage = <<>>
  /\ resolve_file = NoResolveFile
  /\ reply = NoReply
  /\ cut_stats = NotAnalyzed

\* ---------------------------------------------------------- specifications
Init == WatcherInit /\ ResolveOff

Next == WatcherNext

\* the editing-watcher process; all calls fall within one second of the clock
Spec == Init /\ [][Next]_vars

\* the editing-watcher process while the clock advances: sessions are
\* started and stopped and their observers report modified files
ClockNext ==
  \/ \E p \in ProjectPaths : StartLearningSession(p)
  \/ \E a \in SessionIdArgs : StopLearningSession(a)
  \/ \E s \in file_observers, e \in Events : OnModified(s, e)
  \/ \E s \in DOMAIN wpc : WatcherSave(s)
  \/ Tick

SpecClock == Init /\ [][ClockNext]_vars

ResolveStart == WatcherInit /\ ResolveInit

\* the Resolve process
SpecResolve == ResolveStart /\ [][ResolveNext]_vars

CutsStart == WatcherInit /\ CutsInit

CutsNext == Analyze

\* analyze_cut_patterns on every bounded timeline
SpecCuts == CutsStart /\ [][CutsNext]_vars

SuggestStart == WatcherInit /\ SuggestInit

SuggestNext ==
  \/ \E h \in Hosts : HostChange(h)
  \/ \E tl \in ToolNames, pg \in Pages : TrackToolUsage(tl, pg)
  \/ SuggestWorkflowOptimization

\* the Resolve process, started on a fresh or on a used store, asked for
\* suggestions
SpecSuggest == SuggestStart /\ [][SuggestNext]_vars

LengthsStart == WatcherInit /\ LengthsInit

LengthsNext == Analyze

\* analyze_cut_patterns on every bounded list of cut lengths
SpecLengths == LengthsStart /\ [][LengthsNext]_vars

\* ------------------------------------------------------------------ claims
\* the threads that are between an in-memory append and the end of
\* save_patterns
WritersInside ==
  (IF pc = "save" THEN 1 ELSE 0)
  + Cardinality({s \in DOMAIN wpc : wpc[s] = "save"})

\* C1: whenever no mutating operation is in progress, reloading the
\* persisted document gives the in-memory state (every session, action and
\* cut recorded so far).
PersistedAfterEveryMutation ==
  WritersInside = 0 => load_patterns(data_file) = sessions

\* C2: at no time are two writers (the tool call, an observer callback)
\* inside record_action / the whole-document rewrite together.
MutationsNeverOverlap == WritersInside <= 1

\* session i (0-based) exists and is no longer in the active index
Deactivated(i) ==
  i \in 0..(Len(sessions) - 1) /\ StrOf(i) \notin DOMAIN active_sessions

\* C3: once a session is deactivated, no step changes its actions, cuts or
\* exports.
DeactivatedIsImmutable ==
  [][\A i \in 0..(Len(sessions) - 1) :
       Deactivated(i) => sessions'[i + 1] = sessions[i + 1]]_vars

\* the integer a session_id argument denotes is no offset of a session
OutOfRange(arg) ==
  IntOf(arg).ok /\ IntOf(arg).val \notin 0..(Len(sessions) - 1)

\* C4: track_cut and track_workflow_step with an out-of-range session_id
\* change no session, persist nothing and answer SessionNotFound.
OutOfRangeIsRejected ==
  [][\A a \in SessionIdArgs :
       (/\ OutOfRange(a)
        /\ \/ \E c \in CutTypes, d \in DurationArgs : TrackCut(a, c, d)
           \/ \E st \in Steps : TrackWorkflowStep(a, st))
       => /\ sessions' = sessions
          /\ data_file' = data_file
          /\ pc' = "idle"
          /\ result'.kind = "text"
          /\ result'.text = "SessionNotFound"]_vars

\* C5: a step that adds a session adds exactly one, at the end, and
\* start_learning_session returns its offset (the new length minus one);
\* no step removes a session or moves one to another offset.
SessionIdsAreStableOffsets ==
  [][/\ Len(sessions') >= Len(sessions)
     /\ \A i \in 1..Len(sessions) :
          /\ sessions'[i].project = sessions[i].project
          /\ sessions'[i].start_time = sessions[i].start_time
     /\ Len(sessions') # Len(sessions)
          => /\ Len(sessions') = Len(sessions) + 1
             /\ result'.text = "Started learning session"
             /\ result'.id = Len(sessions') - 1
     /\ (result' # result /\ result'.text = "Started learning session")
          => /\ Len(sessions') = Len(sessions) + 1
             /\ result'.id = Len(sessions)]_vars

\* two sessions of different projects were started; the second call
\* returned 1
SecondSessionStarted ==
  /\ Len(sessions) = 2
  /\ sessions[1].project # sessions[2].project
  /\ result.text = "Started learning session"
  /\ result.id = 1

\* session i + 1 of after is session i + 1 of before with one record added
\* at the end of field(session), the other sessions are the same
OneAppended(before, after, i, actionsChanged) ==
  /\ Len(after) = Len(before)
  /\ \A j \in 1..Len(before) : j # i + 1 => after[j] = before[j]
  /\ after[i + 1].project = before[i + 1].project
  /\ after[i + 1].exports = before[i + 1].exports
  /\ LET old == IF actionsChanged THEN before[i + 1].actions
                ELSE before[i + 1].cuts
         new == IF actionsChanged THEN after[i + 1].actions
                ELSE after[i + 1].cuts
     IN /\ Len(new) = Len(old) + 1
        /\ SubSeq(new, 1, Len(old)) = old
  /\ IF actionsChanged THEN after[i + 1].cuts = before[i + 1].cuts
     ELSE after[i + 1].actions = before[i + 1].actions

\* C6: a tool call that records for a valid session_id (the tool-call
\* thread enters save_patterns) appends exactly one action (track_workflow_step)
\* or one cut (track_cut) at the end of that session's list, and an observer
\* callback that records appends one project_save action to its session;
\* the records already there and every other session stay as they are.
RecordingChangesOneSession ==
  [][/\ (pc = "idle" /\ pc' = "save" /\ req'.session_id \in 0..(Len(sessions) - 1))
          => /\ OneAppended(sessions, sessions', req'.session_id,
                            req'.tool = "track_workflow_step")
             /\ LET acts == sessions'[req'.session_id + 1].actions
                    cuts == sessions'[req'.session_id + 1].cuts
                IN IF req'.tool = "track_workflow_step"
                   THEN /\ acts[Len(acts)].type = "workflow_step"
                        /\ acts[Len(acts)].details.step = req'.argument
                   ELSE /\ req'.tool = "track_cut"
                        /\ cuts[Len(cuts)].type = req'.argument
     /\ \A s \in DOMAIN wpc :
          (wpc[s] = "idle" /\ wpc'[s] = "save")
          => /\ OneAppended(sessions, sessions', s, TRUE)
             /\ LET acts == sessions'[s + 1].actions
                IN /\ acts[Len(acts)].type = "project_save"
                   /\ acts[Len(acts)].details.file = wloc'[s].file_path
     /\ (pc' = pc /\ wpc' = wpc /\ Len(sessions') = Len(sessions))
          => sessions' = sessions]_vars

\* an action was recorded for session 0 while session 1 exists and session
\* 0 already had an action
SecondActionInFirstSession ==
  /\ Len(sessions) = 2
  /\ Len(sessions[1].actions) = 2
  /\ sessions[1].actions[2].type = "workflow_step"
  /\ result.tool = "track_workflow_step"
  /\ result.id = 0

\* counters[page][tool_name], 0 when the page or the tool has no entry
Used(counters, page, tool_name) ==
  IF page \in DOMAIN counters /\ tool_name \in DOMAIN counters[page]
  THEN counters[page][tool_name] ELSE 0

\* the actions of all sessions of the Resolve tracker
RECURSIVE AllActions(_)
AllActions(patterns) ==
  IF patterns = <<>> THEN <<>>
  ELSE Head(patterns).actions \o AllActions(Tail(patterns))

\* the number of tool_usage actions recorded for (page, tool_name)
Logged(page, tool_name) ==
  LET acts == AllActions(editing_sessions)
  IN Cardinality({i \in 1..Len(acts) :
                    /\ acts[i].type = "tool_usage"
                    /\ acts[i].details.page = page
                    /\ acts[i].details.tool = tool_name})

CountersMatchLog ==
  \A pg \in Pages, tl \in ToolNames : Used(tool_usage, pg, tl) = Logged(pg, tl)

CountersStep ==
  /\ \A pg \in Pages, tl \in ToolNames :
       Used(tool_usage', pg, tl) >= Used(tool_usage, pg, tl)
  /\ tool_usage' # tool_usage
       => /\ reply'.tool = "track_tool_usage"
          /\ \E pg \in Pages, tl \in ToolNames :
               /\ reply'.body = <<tl, pg>>
               /\ Used(tool_usage', pg, tl) = Used(tool_usage, pg, tl) + 1
               /\ \A pg2 \in Pages, tl2 \in ToolNames :
                    <<pg2, tl2>> # <<pg, tl>>
                    => Used(tool_usage', pg2, tl2) = Used(tool_usage, pg2, tl2)
               /\ LET acts == AllActions(editing_sessions')
                  IN /\ Len(acts) = Len(AllActions(editing_sessions)) + 1
                     /\ SubSeq(acts, 1, Len(acts) - 1)
                          = AllActions(editing_sessions)
                     /\ acts[Len(acts)].type = "tool_usage"
                     /\ acts[Len(acts)].details.page = pg
                     /\ acts[Len(acts)].details.tool = tl

\* C7: every counter equals the number of track_tool_usage calls recorded
\* for its (page, tool); no step decreases a counter; a step that changes
\* the counters is one track_tool_usage call, which adds 1 to one counter
\* and appends one tool_usage action.
ToolUsageCountersExact == []CountersMatchLog /\ [][CountersStep]_vars

\* track_tool_usage("Qualifier", "color") was called three times
QualifierUsedThreeTimes == Used(tool_usage, "color", "Qualifier") = 3

\* C8: a call of an advertised tool returns text, and a call raises
\* "Unknown tool" exactly when its name is not advertised.
DispatchAgreesWithCatalogue ==
  reply.tool # ""
  => /\ reply.tool \in ResolveCatalogue => reply.kind = "text"
     /\ reply.kind = "raise" <=> reply.tool \notin ResolveCatalogue

\* the video clips of the timeline, track 1 before track 2, each track in
\* the host's order
VideoInput == timeline.video[1] \o timeline.video[2]

\* the place of input clip i in the order by start, ties in input order
Rank(i) ==
  1 + Cardinality({j \in 1..Len(VideoInput) :
                     \/ VideoInput[j].start < VideoInput[i].start
                     \/ /\ VideoInput[j].start = VideoInput[i].start
                        /\ j < i})

Ordered(k) == VideoInput[CHOOSE i \in 1..Len(VideoInput) : Rank(i) = k]

\* curr.start - prev.end of the k-th clip of that order and the one before
Gap(k) == Ordered(k).start - Ordered(k - 1).end

PairsOf(ty) ==
  {k \in 2..Len(VideoInput) :
     \/ ty = "hard_cut" /\ Gap(k) = 0
     \/ ty = "gap" /\ Gap(k) > 0
     \/ ty = "overlap" /\ Gap(k) < 0}

\* cut_types[ty], 0 when the key is absent
TypeCount(stats, ty) ==
  IF ty \in DOMAIN stats.cut_types THEN stats.cut_types[ty] ELSE 0

TypeSum(stats) ==
  TypeCount(stats, "gap") + TypeCount(stats, "hard_cut")
  + TypeCount(stats, "overlap")

NonNegativeGaps == \A k \in 2..Len(VideoInput) : Gap(k) >= 0

\* C9 as stated: for a non-empty set of video clips with only non-negative
\* gaps the result has cut_types with gap + hard_cut + overlap = n_clips - 1.
CutTypesSumForAnyVideoClips ==
  (cut_stats # NotAnalyzed /\ Len(VideoInput) >= 1 /\ NonNegativeGaps)
  => /\ cut_stats.error = ""
     /\ TypeSum(cut_stats) = Len(VideoInput) - 1

\* C9 amended: the same for video clips of which at least one has a
\* duration > 0 (an absent cut_types key counts 0).
CutTypesSumWhenCutsFound ==
  (/\ cut_stats # NotAnalyzed
   /\ Len(VideoInput) >= 1
   /\ NonNegativeGaps
   /\ \E i \in 1..Len(VideoInput) : VideoInput[i].duration > 0)
  => /\ cut_stats.error = ""
     /\ TypeSum(cut_stats) = Len(VideoInput) - 1

\* three video clips without overlap, one of them of zero duration, were
\* analyzed: two hard cuts
TwoHardCutsAnalyzed ==
  /\ cut_stats # NotAnalyzed
  /\ cut_stats.error = ""
  /\ Len(VideoInput) = 3
  /\ NonNegativeGaps
  /\ \E i \in 1..3 : VideoInput[i].duration = 0
  /\ TypeCount(cut_stats, "hard_cut") = 2

ScenarioClips ==
  <<[start |-> 0, end |-> 100, duration |-> 100],
    [start |-> 100, end |-> 250, duration |-> 150],
    [start |-> 240, end |-> 300, duration |-> 60]>>

WithoutAudio == [timeline EXCEPT !.audio = <<<<>>>>]

\* C10: the result is that of the timeline without its audio clips; the
\* count of each cut type is the number of adjacent pairs, in the order by
\* start with ties in input order, whose gap has that sign; the scenario
\* gives one hard_cut, one overlap, total_cuts 3 and pace fast.
AnalyzeCutsClassifiesPairs ==
  cut_stats # NotAnalyzed
  => /\ cut_stats
          = analyze_cut_patterns(analyze_current_timeline(resolve, host,
                                                          WithoutAudio))
     /\ cut_stats.error = ""
          => /\ DOMAIN cut_stats.cut_types \subseteq {"hard_cut", "gap", "overlap"}
             /\ \A ty \in {"hard_cut", "gap", "overlap"} :
                  TypeCount(cut_stats, ty) = Cardinality(PairsOf(ty))
     /\ VideoInput = ScenarioClips
          => /\ cut_stats.error = ""
             /\ TypeCount(cut_stats, "hard_cut") = 1
             /\ TypeCount(cut_stats, "overlap") = 1
             /\ TypeCount(cut_stats, "gap") = 0
             /\ cut_stats.total_cuts = 3
             /\ cut_stats.editing_pace = "fast"

\* the scenario, all on video track 1, was analyzed
ScenarioAnalyzed ==
  /\ cut_stats # NotAnalyzed
  /\ timeline.video[1] = ScenarioClips
  /\ cut_stats.total_cuts = 3

\* the video clips of the timeline that have a duration > 0
Positive == {i \in 1..Len(VideoInput) : VideoInput[i].duration > 0}

RECURSIVE DurationSum(_)
DurationSum(n) ==
  IF n = 0 THEN 0
  ELSE DurationSum(n - 1)
         + (IF VideoInput[n].duration > 0 THEN VideoInput[n].duration ELSE 0)

\* C11: analyze_cuts fails with "No cuts found" exactly when no video clip
\* has a duration > 0; otherwise total_cuts is the number of video clips
\* with a duration > 0 and the length statistics are those of these clips
\* alone, while every adjacent pair of video clips, zero-duration clips
\* included, is classified.
NoCutsExactlyWithoutLengths ==
  cut_stats # NotAnalyzed
  => /\ cut_stats.error \in {"", "No cuts found"}
     /\ cut_stats.error = "No cuts found" <=> Positive = {}
     /\ cut_stats.error = ""
          => /\ cut_stats.total_cuts = Cardinality(Positive)
             /\ cut_stats.sum = DurationSum(Len(VideoInput))
             /\ cut_stats.shortest_cut > 0
             /\ \A ty \in {"hard_cut", "gap", "overlap"} :
                  TypeCount(cut_stats, ty) = Cardinality(PairsOf(ty))
             /\ TypeSum(cut_stats) = Len(VideoInput) - 1

\* a zero-duration clip between two clips of duration > 0 was analyzed: two
\* cut lengths, two classified pairs
ZeroDurationClipAnalyzed ==
  /\ cut_stats # NotAnalyzed
  /\ cut_stats.error = ""
  /\ Len(VideoInput) = 3
  /\ Ordered(2).duration = 0
  /\ cut_stats.total_cuts = 2
  /\ TypeSum(cut_stats) = 2

\* C12: in every state of the store, aggregate_cut_patterns returns the
\* empty result when no session has a cut, and whenever it computes the
\* average sum / len(cut_lengths) the divisor, which it reports as
\* total_cuts, is the number of cuts with a duration > 0 and is not zero.
AggregateNeverDividesByZero ==
  LET insights == analyze_patterns(sessions)
  IN /\ AllCuts(sessions) = <<>> => insights.status = "empty"
     /\ insights.status = "stats"
          => /\ insights.total_cuts > 0
             /\ insights.total_cuts = CountLengths(AllCuts(sessions))
     /\ insights.status = "empty" => CountLengths(AllCuts(sessions)) = 0

\* get_editing_insights answered "Not enough cut data yet" on a store with a
\* session and no cut
InsightsWithoutCuts ==
  /\ Len(sessions) >= 1
  /\ AllCuts(sessions) = <<>>
  /\ result.tool = "get_editing_insights"
  /\ result.body = <<"empty">>

\* what suggest_workflow_optimization returns in the current state
Suggested ==
  workflow_suggestions(
    tool_usage,
    analyze_cut_patterns(analyze_current_timeline(resolve, host, timeline)))

FrequentTools == {e \in AllTools(tool_usage) : e[3] > Frequent}

TimelineAnalyzable ==
  analyze_cut_patterns(analyze_current_timeline(resolve, host, timeline)).error
    = ""

\* C13 as stated: the suggestions are never empty, and on a store without
\* recorded data they are exactly the one fallback message.
SuggestionsFallbackWithoutData ==
  reply.tool = "suggest_workflow_optimization"
  => /\ reply.body # <<>>
     /\ (editing_sessions = <<>> /\ tool_usage = <<>>)
          => reply.body = <<"Keep editing">>

\* C13 amended: the suggestions are never empty; they are exactly the one
\* fallback message if and only if no tool was used more than 10 times and
\* the cut analysis of the host's timeline fails; otherwise they hold one
\* message per tool used more than 10 times and one or two messages about
\* the timeline.
SuggestionsNeverEmpty ==
  /\ Suggested # <<>>
  /\ Suggested = <<"Keep editing">>
       <=> (FrequentTools = {} /\ ~TimelineAnalyzable)
  /\ Suggested # <<"Keep editing">>
       => /\ \A i \in 1..Len(Suggested) : Suggested[i] # "Keep editing"
          /\ Len(Suggested) >= Cardinality(FrequentTools)
                                 + (IF TimelineAnalyzable THEN 1 ELSE 0)
          /\ Len(Suggested) <= Cardinality(FrequentTools)
                                 + (IF TimelineAnalyzable THEN 2 ELSE 0)
  /\ reply.tool = "suggest_workflow_optimization" => reply.body # <<>>

\* suggest_workflow_optimization answered with the fallback on a fresh
\* store whose host has no analyzable timeline
FallbackOnFreshStore ==
  /\ editing_sessions = <<>>
  /\ tool_usage = <<>>
  /\ ~TimelineAnalyzable
  /\ reply.tool = "suggest_workflow_optimization"
  /\ reply.body = <<"Keep editing">>

\* the project_save actions of session s (0-based), as positions in its log
Saves(s) ==
  {i \in 1..Len(sessions[s + 1].actions) :
     sessions[s + 1].actions[i].type = "project_save"}

SavesOf(s, p) ==
  {i \in Saves(s) : sessions[s + 1].actions[i].details.file = p}

SavedAt(s, i) == sessions[s + 1].actions[i].timestamp

Apart(t1, t2) == IF t1 >= t2 THEN t1 - t2 ELSE t2 - t1

\* every recorded project_save came from an event on a file, not a
\* directory, whose suffix in lower case is a project suffix
SavesAreProjectFiles ==
  /\ \A s \in 0..(Len(sessions) - 1) : \A i \in Saves(s) :
       /\ Lower(sessions[s + 1].actions[i].details.file.suffix)
            \in ProjectSuffixes
       /\ sessions[s + 1].actions[i].details.file_type
            = Lower(sessions[s + 1].actions[i].details.file.suffix)
  /\ \A s \in DOMAIN wpc :
       wpc[s] = "save"
       => /\ ~wloc[s].is_directory
          /\ Lower(wloc[s].file_path.suffix) \in ProjectSuffixes

\* an event on project file p reaching the idle observer of session s is
\* recorded unless that session recorded p itself 2 seconds ago or less
OwnPathDecides ==
  \A s \in file_observers, p \in EventPaths :
    (wpc[s] = "idle" /\ Lower(p.suffix) \in ProjectSuffixes)
    => (on_modified_records(last_modified[s],
                            [is_directory |-> FALSE, src_path |-> p], now)
        <=> \A i \in SavesOf(s, p) : now - SavedAt(s, i) > Debounce)

\* C14 as stated: project_save is recorded only for non-directory files
\* whose extension is one of the four suffixes, and for any one path no two
\* recorded project_save actions are 2 seconds or less apart.
DebouncedPerPath ==
  /\ SavesAreProjectFiles
  /\ \A s1 \in 0..(Len(sessions) - 1), s2 \in 0..(Len(sessions) - 1) :
       \A i \in Saves(s1), j \in Saves(s2) :
         (<<s1, i>> # <<s2, j>>
          /\ sessions[s1 + 1].actions[i].details.file
               = sessions[s2 + 1].actions[j].details.file)
         => Apart(SavedAt(s1, i), SavedAt(s2, j)) > Debounce

\* C14 amended: project_save is recorded only for events on non-directory
\* files whose extension, compared in lower case, is one of the four
\* suffixes; within one session no two recorded project_save actions of
\* one path are 2 seconds or less apart; and whether an event is recorded
\* depends on the saves the same session recorded for the same path only.
DebouncedPerSessionAndPath ==
  /\ SavesAreProjectFiles
  /\ \A s \in 0..(Len(sessions) - 1) : \A p \in EventPaths :
       \A i \in SavesOf(s, p), j \in SavesOf(s, p) :
         i # j => Apart(SavedAt(s, i), SavedAt(s, j)) > Debounce
  /\ OwnPathDecides

\* one session recorded the same project file twice, 3 seconds apart, and
\* is past both saves
SavedAgainAfterDebounce ==
  \E s \in 0..(Len(sessions) - 1) : \E p \in EventPaths :
    /\ Cardinality(SavesOf(s, p)) = 2
    /\ \E i \in SavesOf(s, p), j \in SavesOf(s, p) :
         SavedAt(s, j) - SavedAt(s, i) = Debounce + 1
    /\ wpc[s] = "idle"

\* the host is unavailable, has no project or no timeline, or one of its
\* calls raises
HostFails ==
  ~resolve \/ ~host.project \/ ~host.timeline \/ host.raises # "never"

\* the message for the first failure met: the API object, the project
\* (asking for it may raise), the timeline, reading the tracks
HostFailureText ==
  IF ~resolve THEN "Resolve API not available"
  ELSE IF host.raises = "GetCurrentProject" THEN "Timeline analysis failed"
  ELSE IF ~host.project THEN "No project loaded"
  ELSE IF ~host.timeline THEN "No timeline selected"
  ELSE "Timeline analysis failed"

AnalysisTools == {"analyze_current_timeline", "analyze_cut_patterns"}

HostFailureStep ==
  /\ (reply' # reply /\ reply'.tool \in AnalysisTools /\ HostFails)
       => /\ reply'.kind = "text"
          /\ reply'.text = HostFailureText
          /\ reply'.id = 0
          /\ reply'.body = <<>>
          /\ UNCHANGED <<editing_sessions, tool_usage, resolve_file>>
  /\ (editing_sessions' # editing_sessions /\ reply'.tool \in AnalysisTools)
       => /\ ~HostFails
          /\ reply'.text \in {"Timeline Analysis", "Cut Pattern Analysis"}

\* C15: a call of analyze_current_timeline or analyze_cut_patterns while
\* the host is unavailable, has no project, has no timeline or raises
\* answers with the error text of the first failure (API object, project,
\* timeline), carries no timeline or statistics data and leaves the store
\* and its document as they were; these tools append an Action only when
\* the host did not fail.
HostFailuresBecomeText == [][HostFailureStep]_vars

\* after one recorded analysis the host started raising and
\* analyze_current_timeline answered with the error alone
FailedAfterOneAnalysis ==
  /\ ActionCount(editing_sessions) = 1
  /\ editing_sessions[1].actions[1].type = "timeline_analysis"
  /\ resolve /\ host.project /\ host.timeline
  /\ host.raises = "GetItemsInTrack"
  /\ reply.tool = "analyze_current_timeline"
  /\ reply.text = "Timeline analysis failed"

\* C16 as stated: a successful result has cut_types with exactly the keys
\* hard_cut, gap and overlap.
CutTypeKeysAreAllThree ==
  (cut_stats # NotAnalyzed /\ cut_stats.error = "")
  => DOMAIN cut_stats.cut_types = {"hard_cut", "gap", "overlap"}

\* the durations of the video clips, in the host's order
Lengths == [i \in 1..Len(VideoInput) |-> VideoInput[i].duration]

Below(m) == Cardinality({i \in 1..Len(Lengths) : Lengths[i] < m})

UpTo(m) == Cardinality({i \in 1..Len(Lengths) : Lengths[i] <= m})

IsPermutationOf(seq, target) ==
  /\ Len(seq) = Len(target)
  /\ \A i \in 1..Len(target) :
       Cardinality({j \in 1..Len(seq) : seq[j] = target[i]})
         = Cardinality({j \in 1..Len(target) : target[j] = target[i]})

\* C17: median_cut_length is the element at 0-based index len // 2 of the
\* cut lengths sorted ascending: a cut length with at most len // 2 lengths
\* below it and more than len // 2 lengths not above it; for the lengths
\* 10, 20, 30, 40 in any order it is 30.
MedianIsFloorIndexPick ==
  (cut_stats # NotAnalyzed /\ cut_stats.error = "")
  => /\ \E i \in 1..Len(Lengths) : Lengths[i] = cut_stats.median_cut_length
     /\ Below(cut_stats.median_cut_length) <= Len(Lengths) \div 2
     /\ UpTo(cut_stats.median_cut_length) > Len(Lengths) \div 2
     /\ IsPermutationOf(Lengths, <<10, 20, 30, 40>>)
          => cut_stats.median_cut_length = 30

\* the cut lengths 40, 10, 30, 20, in this order, were analyzed
FourLengthsAnalyzed ==
  /\ cut_stats # NotAnalyzed
  /\ Lengths = <<40, 10, 30, 20>>
  /\ cut_stats.median_cut_length = 30

\* C18: editing_pace is "fast" if and only if the average cut length,
\* sum / total_cuts, is below 120, and "slow" otherwise; an average of
\* exactly 120 gives "slow".
PaceIsFastBelow120 ==
  (cut_stats # NotAnalyzed /\ cut_stats.error = "")
  => /\ cut_stats.editing_pace \in {"fast", "slow"}
     /\ cut_stats.editing_pace = "fast"
          <=> cut_stats.sum < 120 * cut_stats.total_cuts
     /\ cut_stats.sum = 120 * cut_stats.total_cuts
          => cut_stats.editing_pace = "slow"

\* the cut lengths 40 and 200, of average 120, were analyzed as slow
AverageOf120Analyzed ==
  /\ cut_stats # NotAnalyzed
  /\ Lengths = <<40, 200>>
  /\ cut_stats.sum = 240
  /\ cut_stats.total_cuts = 2
  /\ cut_stats.editing_pace = "slow"

\* C19: shortest_cut and longest_cut are the smallest and the largest cut
\* length, and shortest_cut * total_cuts <= sum <= longest_cut * total_cuts:
\* the average lies within [shortest_cut, longest_cut].
AverageWithinShortestAndLongest ==
  (cut_stats # NotAnalyzed /\ cut_stats.error = "")
  => /\ cut_stats.total_cuts = Len(Lengths)
     /\ \A i \in 1..Len(Lengths) :
          /\ cut_stats.shortest_cut <= Lengths[i]
          /\ Lengths[i] <= cut_stats.longest_cut
     /\ cut_stats.shortest_cut * cut_stats.total_cuts <= cut_stats.sum
     /\ cut_stats.sum <= cut_stats.longest_cut * cut_stats.total_cuts

\* unequal cut lengths were analyzed: the average is strictly between the
\* shortest and the longest
AverageStrictlyInside ==
  /\ cut_stats # NotAnalyzed
  /\ cut_stats.error = ""
  /\ Lengths = <<200, 10, 30>>
  /\ cut_stats.shortest_cut * cut_stats.total_cuts < cut_stats.sum
  /\ cut_stats.sum < cut_stats.longest_cut * cut_stats.total_cuts

\* the sequence whose adjacent pairs analyze_cut_patterns classifies: the
\* video clips of the snapshot, sorted by start
PairedClips ==
  SortByStart(VideoClips(analyze_current_timeline(resolve, host,
                                                  timeline).clips))

\* C20: every adjacent pair that is classified as hard_cut, gap or overlap
\* consists of two clips of the same video track.
PairsWithinOneTrack ==
  (cut_stats # NotAnalyzed /\ cut_stats.error = "")
  => /\ TypeSum(cut_stats) = Len(PairedClips) - 1
     /\ \A k \in 2..Len(PairedClips) :
          PairedClips[k - 1].track_index = PairedClips[k].track_index

\* the operations built on aggregate_cut_patterns
AggregatingTools ==
  {"get_editing_insights", "stop_learning_session", "suggest_next_action"}

\* C21: get_editing_insights, stop_learning_session and suggest_next_action
\* complete with a text result, never with an exception, whatever cuts
\* were recorded, cuts without a duration included.
AggregationCompletes ==
  result.tool \in AggregatingTools => result.kind = "text"

\* every key of the active index is str() of the offset of a session, and
\* every registered observer belongs to a session of the active index
RegistryConsistent ==
  /\ \A k \in DOMAIN active_sessions :
       /\ IntOf(k).ok
       /\ IntOf(k).val \in 0..(Len(sessions) - 1)
       /\ StrOf(IntOf(k).val) = k
  /\ \A s \in file_observers : StrOf(s) \in DOMAIN active_sessions

\* a stop_learning_session(arg) step: an active id leaves the index and the
\* registry while every other id and all sessions stay; any other argument
\* is answered "No active session found" and nothing changes
StopStep ==
  \A arg \in SessionIdArgs :
    StopLearningSession(arg)
    => IF arg \in DOMAIN active_sessions
       THEN /\ DOMAIN active_sessions' = DOMAIN active_sessions \ {arg}
            /\ \A k \in DOMAIN active_sessions' :
                 active_sessions'[k] = active_sessions[k]
            /\ file_observers' = file_observers \ {IntOf(arg).val}
            /\ sessions' = sessions
            /\ data_file' = data_file
            /\ result'.tool = "stop_learning_session"
            /\ result'.text # "No active session found"
       ELSE /\ result' = Reply("stop_learning_session", "text",
                               "No active session found", 0, <<>>)
            /\ UNCHANGED <<sessions, data_file, active_sessions,
                           file_observers>>

\* a start_learning_session step puts the new session's offset in the
\* active index, and its observer, if any, in the registry
StartStep ==
  Len(sessions') = Len(sessions) + 1
  => /\ DOMAIN active_sessions'
          = DOMAIN active_sessions \cup {StrOf(Len(sessions))}
     /\ file_observers' \subseteq file_observers \cup {Len(sessions)}
     /\ file_observers \subseteq file_observers'

\* C22: the active index and the observer registry stay consistent with
\* the sessions; stopping an active id removes it from both and keeps the
\* session record; stopping an id that is not active answers "No active
\* session found" and changes nothing.
ActiveIndexStaysConsistent ==
  []RegistryConsistent /\ [][StopStep /\ StartStep]_vars

\* of two started sessions the first was stopped and then stopped again:
\* the second is still active and observed, both records are kept
StoppedTwice ==
  /\ Len(sessions) = 2
  /\ DOMAIN active_sessions = {<<"1">>}
  /\ file_observers = {1}
  /\ result.tool = "stop_learning_session"
  /\ result.text = "No active session found"
====
